---- MODULE Spec2Model ----
(***************************************************************************)
(* Calendar feed -> remote metaobject store reconciliation.                *)
(*                                                                         *)
(* The repository holds several generations of the same job:               *)
(*   "core"  : runSync of src/src/sync-core.mjs:104-178 (list, create or   *)
(*             update per occurrence with status ACTIVE folded into the    *)
(*             mutation, delete the rest; throws on any error)             *)
(*   "core5" : runSync of src/src/sync.mjs:282-354 (the same loop, the     *)
(*             mutations carry no publishable status)                      *)
(*   "part0" : runSync of src/unnamed/part_000:25-162 (the same loop,      *)
(*             userErrors of the mutations are never read)                 *)
(*   "run"   : run of src/src/sync.mjs:147-207 (upsert + setActive per     *)
(*             occurrence inside try/catch; no list, no delete)            *)
(* A behaviour fixes one generation and one feed, and performs up to       *)
(* MaxRuns runs against one remote store.                                  *)
(***************************************************************************)
EXTENDS Integers, Sequences, FiniteSets, TLC

\* ---- bounds of the model ------------------------------------------------
MaxOcc == 2
MaxRuns == 2
MaxFailures == 2

\* handles the store may hold before the first run / the feed may desire
StoreHandles == {"a", "b"}
FeedHandles == {"a", "b", "c"}
Variants == {"core", "core5", "part0", "run"}

\* metaobjects(type:"event", first:250)
ListFirst == 250

VARIABLES
  variant,       \* which generation of the job runs
  feed,          \* desired occurrences of the feed, as handles, in feed order
  store,         \* the remote store: set of [id, handle, status, fresh]
  nextId,        \* next id the store assigns
  runNo,         \* runs started so far
  phase,         \* position of the run
  step,          \* run(): position inside upsertMetaobject / setActive
  idx,           \* index of the occurrence being applied
  didx,          \* index into toDelete
  currentNodes,  \* snapshot of the list call: sequence of [id, handle]
  occ,           \* the desired list of this run
  curId,         \* run(): id returned by the write / found by the lookup
  count,         \* run(): count of synchronised items
  failures,      \* remote failures and crashes injected so far
  runFailed,     \* some remote call of this run did not succeed
  fatal,         \* a run-aborting condition occurred before the plan existed
  issued,        \* log of the mutations issued in this run
  storeAtStart,  \* the store when this run started
  prevClean,     \* the previous run completed and no remote call of it failed
  prevAborted,   \* the previous run threw or crashed
  srv,           \* the invoking layer: triggers, requests, runs in progress
  xp,            \* the occurrence expander: a feed, a clock, the desired list
  hk,            \* the identity assigner: an identifier, a start, the handles built
  cfg,           \* the configuration resolution: the tiers and the resolved values
  ls             \* the list call: the size of the store, the page, the plan

coreVars == <<variant, feed, store, nextId, runNo, phase, step, idx, didx,
              currentNodes, occ, curId, count, failures, runFailed, fatal,
              issued, storeAtStart, prevClean, prevAborted>>

vars == <<coreVars, srv, xp, hk, cfg, ls>>

\* the parts of the state a specification does not exercise stay as they are
Off == [on |-> FALSE]

\* ---- per-generation traits ----------------------------------------------
IsRunSync(v) == v \in {"core", "core5", "part0"}

\* MUT_CREATE / MUT_UPDATE carry capabilities:{publishable:{status: ACTIVE}}
PublishFolded(v) == v = "core"

\* `if (errs.length) throw` after each mutation
ChecksUserErrors(v) == v \in {"core", "core5"}

\* ---- the remote store ---------------------------------------------------
\* The store is the remote side of the GraphQL documents: it keeps handles
\* unique (a create of a taken handle comes back in userErrors), rejects an
\* update or delete of an unknown id, and a record written without a
\* publishable status is a DRAFT until SET_STATUS_ACTIVE is applied to it.
\* `fresh` tells that the record carries the fields of the current feed.
HandlesOf(s) == {r.handle : r \in s}
IdsOf(s) == {r.id : r \in s}

RECURSIVE SortById(_)
SortById(S) ==
  IF S = {} THEN <<>>
  ELSE LET m == CHOOSE r \in S : \A q \in S : r.id <= q.id
       IN  <<m>> \o SortById(S \ {m})

\* what one list call can return: everything, up to the page size
Snapshots(s) ==
  IF Cardinality(s) <= ListFirst THEN {s}
  ELSE {t \in SUBSET s : Cardinality(t) = ListFirst}

Nodes(s) == SortById({[id |-> r.id, handle |-> r.handle] : r \in s})

\* metaobjectCreate: a taken handle is reported in userErrors
StoreCreate(s, nid, h, publish) ==
  IF h \in HandlesOf(s)
  THEN [outcome |-> "userErrors", code |-> "TAKEN", store |-> s, id |-> 0, nextId |-> nid]
  ELSE [outcome |-> "ok", code |-> "",
        store |-> s \cup {[id |-> nid, handle |-> h,
                           status |-> IF publish THEN "ACTIVE" ELSE "DRAFT",
                           fresh |-> TRUE]},
        id |-> nid, nextId |-> nid + 1]

\* metaobjectUpdate(id, fields): an unknown id is reported in userErrors
StoreUpdate(s, nid, id, publish) ==
  IF id \notin IdsOf(s)
  THEN [outcome |-> "userErrors", code |-> "NOT_FOUND", store |-> s, id |-> 0, nextId |-> nid]
  ELSE [outcome |-> "ok", code |-> "",
        store |-> {IF r.id = id
                   THEN [r EXCEPT !.fresh = TRUE,
                                  !.status = IF publish THEN "ACTIVE" ELSE @]
                   ELSE r : r \in s},
        id |-> id, nextId |-> nid]

\* metaobjectUpsert(handle, fields): update the record of that handle or create it
StoreUpsert(s, nid, h) ==
  IF h \in HandlesOf(s)
  THEN StoreUpdate(s, nid, (CHOOSE r \in s : r.handle = h).id, FALSE)
  ELSE StoreCreate(s, nid, h, FALSE)

\* metaobjectUpdate(id, capabilities:{publishable:{status: ACTIVE}})
StoreSetActive(s, nid, id) ==
  IF id \notin IdsOf(s)
  THEN [outcome |-> "userErrors", code |-> "NOT_FOUND", store |-> s, id |-> 0, nextId |-> nid]
  ELSE [outcome |-> "ok", code |-> "",
        store |-> {IF r.id = id THEN [r EXCEPT !.status = "ACTIVE"] ELSE r : r \in s},
        id |-> id, nextId |-> nid]

\* metaobjectDelete(id)
StoreDelete(s, nid, id) ==
  IF id \notin IdsOf(s)
  THEN [outcome |-> "userErrors", code |-> "NOT_FOUND", store |-> s, id |-> 0, nextId |-> nid]
  ELSE [outcome |-> "ok", code |-> "", store |-> {r \in s : r.id # id}, id |-> id, nextId |-> nid]

\* a remote call that did not reach the store, or was rejected by validation
Rejected(s, nid, o) == [outcome |-> o, code |-> "", store |-> s, id |-> 0, nextId |-> nid]

\* ---- failure injection --------------------------------------------------
CanFail == failures < MaxFailures
MutOutcomes == {"ok"} \cup (IF CanFail THEN {"userErrors", "transport"} ELSE {})
QueryOutcomes == {"ok"} \cup (IF CanFail THEN {"transport"} ELSE {})
Spent(o) == IF o = "ok" THEN failures ELSE failures + 1


\* ---- the plan -----------------------------------------------------------
\* mutant: the lookup in the snapshot never finds the record
ExistingIdMut(nodes, h) == 0

\* currentMap.get(ev.handle) / currentEvents.find(e => e.handle === ev.handle)
ExistingId(nodes, h) ==
  IF \E k \in 1..Len(nodes) : nodes[k].handle = h
  THEN nodes[CHOOSE k \in 1..Len(nodes) : nodes[k].handle = h].id
  ELSE 0

NewHandles(o) == {o[k] : k \in 1..Len(o)}

\* mutant: the filter keeps the desired handles instead of the others
ToDeleteMut(nodes, o) == SelectSeq(nodes, LAMBDA n : n.handle \in {o[k] : k \in 1..Len(o)})

\* currentNodes.filter(n => !newHandles.includes(n.handle))
ToDelete(nodes, o) == SelectSeq(nodes, LAMBDA n : n.handle \notin NewHandles(o))

\* mutant: the deletion loop is placed before the loop over occ
NextPhaseMut(v, i, j, nodes, o) ==
  IF IsRunSync(v) /\ j <= Len(SelectSeq(nodes, LAMBDA n : n.handle \notin {o[k] : k \in 1..Len(o)}))
  THEN "delete"
  ELSE IF i <= Len(o) THEN "apply"
  ELSE "done"

\* the loop over occ, then the loop over toDelete, then the end of the run:
\* where the run stands with occurrences 1..i-1 and deletions 1..j-1 behind it
NextPhase(v, i, j, nodes, o) ==
  IF i <= Len(o) THEN "apply"
  ELSE IF IsRunSync(v) /\ j <= Len(ToDelete(nodes, o)) THEN "delete"
  ELSE "done"

\* mutant: the catch retries the same ev
AfterFailureMut(i) == i

\* run(): the catch of the loop body sleeps and the loop goes on with the next ev
AfterFailure(i) == i + 1

\* the feed location by precedence tier; FALSE: none is resolvable
ResolvedIcs(v, byId, byType, env) ==
  CASE v = "core"  -> byId \/ byType \/ env
    [] v = "core5" -> byType \/ env
    [] v = "part0" -> byType
    [] v = "run"   -> env

\* does the error of a mutation unwind out of the runSync loop
Thrown(v, outcome) ==
  \/ outcome = "transport"
  \/ outcome = "userErrors" /\ ChecksUserErrors(v)

\* one line of the log: the mutation, its handle, the occurrence it is for
\* (0: a deletion), whether it succeeded, the store's error code
Entry(kind, h, item, r) ==
  [kind |-> kind, h |-> h, item |-> item, ok |-> (r.outcome = "ok"), code |-> r.code]

\* ---- initial states -----------------------------------------------------
InitId(h) == IF h = "a" THEN 1 ELSE 2

InitStores ==
  {{[id |-> InitId(h), handle |-> h, status |-> st[h], fresh |-> FALSE] : h \in H} :
     <<H, st>> \in {<<H, st>> \in (SUBSET StoreHandles) \X [StoreHandles -> {"ACTIVE", "DRAFT"}] :
                      \A h \in StoreHandles \ H : st[h] = "ACTIVE"}}

Feeds == UNION {[1..n -> FeedHandles] : n \in 0..MaxOcc}

Init ==
  /\ variant \in Variants
  /\ feed \in Feeds
  /\ store \in InitStores
  /\ nextId = 3
  /\ runNo = 0
  /\ phase = "idle"
  /\ step = "upsert"
  /\ idx = 1
  /\ didx = 1
  /\ currentNodes = <<>>
  /\ occ = <<>>
  /\ curId = 0
  /\ count = 0
  /\ failures = 0
  /\ runFailed = FALSE
  /\ fatal = FALSE
  /\ issued = <<>>
  /\ storeAtStart = store
  /\ prevClean = FALSE
  /\ prevAborted = FALSE
  /\ srv = Off
  /\ xp = Off
  /\ hk = Off
  /\ cfg = Off
  /\ ls = Off

\* ---- the invoker starts a run -------------------------------------------
StartRun ==
  /\ phase \in {"idle", "done", "failed", "crashed"}
  /\ runNo < MaxRuns
  /\ runNo' = runNo + 1
  /\ phase' = "config"
  /\ prevClean' = (phase = "done" /\ ~runFailed)
  /\ prevAborted' = (phase \in {"failed", "crashed"})
  /\ storeAtStart' = store
  /\ step' = "upsert"
  /\ idx' = 1
  /\ didx' = 1
  /\ currentNodes' = <<>>
  /\ occ' = <<>>
  /\ curId' = 0
  /\ count' = 0
  /\ runFailed' = FALSE
  /\ fatal' = FALSE
  /\ issued' = <<>>
  /\ UNCHANGED <<variant, feed, store, nextId, failures>>

\* getCalendarConfig + `if (!cfg.ics) throw`; run(): the .env check at load
ResolveConfig ==
  /\ phase = "config"
  /\ \E byId \in BOOLEAN, byType \in BOOLEAN, env \in BOOLEAN :
       IF ResolvedIcs(variant, byId, byType, env)
       THEN /\ phase' = IF IsRunSync(variant) THEN "list" ELSE "fetch"
            /\ UNCHANGED <<fatal, runFailed>>
       ELSE /\ phase' = "failed"
            /\ fatal' = TRUE
            /\ runFailed' = TRUE
  /\ UNCHANGED <<variant, feed, store, nextId, runNo, step, idx, didx, currentNodes,
                 occ, curId, count, failures, issued, storeAtStart, prevClean, prevAborted>>

\* the initial list of the existing records
ListExisting ==
  /\ phase = "list"
  /\ \E o \in QueryOutcomes :
       /\ failures' = Spent(o)
       /\ IF o = "ok"
          THEN /\ \E snap \in Snapshots(store) : currentNodes' = Nodes(snap)
               /\ phase' = "fetch"
               /\ UNCHANGED <<fatal, runFailed>>
          ELSE /\ phase' = "failed"
               /\ fatal' = TRUE
               /\ runFailed' = TRUE
               /\ UNCHANGED currentNodes
  /\ UNCHANGED <<variant, feed, store, nextId, runNo, step, idx, didx,
                 occ, curId, count, issued, storeAtStart, prevClean, prevAborted>>

\* mutant: a feed that cannot be fetched is taken for an empty feed
FetchFeedMut ==
  /\ phase = "fetch"
  /\ \E o \in QueryOutcomes :
       /\ failures' = Spent(o)
       /\ IF o = "ok"
          THEN /\ occ' = feed
               /\ phase' = NextPhase(variant, 1, 1, currentNodes, feed)
               /\ UNCHANGED <<fatal, runFailed>>
          ELSE /\ occ' = <<>>
               /\ phase' = NextPhase(variant, 1, 1, currentNodes, <<>>)
               /\ fatal' = TRUE
               /\ runFailed' = TRUE
  /\ UNCHANGED <<variant, feed, store, nextId, runNo, step, idx, didx, currentNodes,
                 curId, count, issued, storeAtStart, prevClean, prevAborted>>

\* fetch and parse the feed; the desired list of the run
FetchFeed ==
  /\ phase = "fetch"
  /\ \E o \in QueryOutcomes :
       /\ failures' = Spent(o)
       /\ IF o = "ok"
          THEN /\ occ' = feed
               /\ phase' = NextPhase(variant, 1, 1, currentNodes, feed)
               /\ UNCHANGED <<fatal, runFailed>>
          ELSE /\ phase' = "failed"
               /\ fatal' = TRUE
               /\ runFailed' = TRUE
               /\ UNCHANGED occ
  /\ UNCHANGED <<variant, feed, store, nextId, runNo, step, idx, didx, currentNodes,
                 curId, count, issued, storeAtStart, prevClean, prevAborted>>


\* ---- runSync: one create or update per occurrence ------------------------
ApplyItem ==
  /\ phase = "apply"
  /\ IsRunSync(variant)
  /\ idx <= Len(occ)
  /\ \E o \in MutOutcomes :
       LET h == occ[idx]
           existingId == ExistingId(currentNodes, h)
           kind == IF existingId # 0 THEN "update" ELSE "create"
           r == IF o # "ok" THEN Rejected(store, nextId, o)
                ELSE IF existingId # 0
                     THEN StoreUpdate(store, nextId, existingId, PublishFolded(variant))
                     ELSE StoreCreate(store, nextId, h, PublishFolded(variant))
       IN  /\ failures' = Spent(o)
           /\ store' = r.store
           /\ nextId' = r.nextId
           /\ issued' = Append(issued, Entry(kind, h, idx, r))
           /\ runFailed' = (runFailed \/ r.outcome # "ok")
           /\ IF Thrown(variant, r.outcome)
              THEN /\ phase' = "failed"
                   /\ idx' = idx
              ELSE /\ idx' = idx + 1
                   /\ phase' = NextPhase(variant, idx + 1, didx, currentNodes, occ)
  /\ UNCHANGED <<variant, feed, runNo, step, didx, currentNodes, occ, curId, count,
                 fatal, storeAtStart, prevClean, prevAborted>>

\* ---- runSync: delete the records whose handle is not desired ------------
DeleteItem ==
  /\ phase = "delete"
  /\ IsRunSync(variant)
  /\ didx <= Len(ToDelete(currentNodes, occ))
  /\ \E o \in MutOutcomes :
       LET n == ToDelete(currentNodes, occ)[didx]
           r == IF o # "ok" THEN Rejected(store, nextId, o)
                ELSE StoreDelete(store, nextId, n.id)
       IN  /\ failures' = Spent(o)
           /\ store' = r.store
           /\ nextId' = r.nextId
           /\ issued' = Append(issued, Entry("delete", n.handle, 0, r))
           /\ runFailed' = (runFailed \/ r.outcome # "ok")
           /\ IF Thrown(variant, r.outcome)
              THEN /\ phase' = "failed"
                   /\ didx' = didx
              ELSE /\ didx' = didx + 1
                   /\ phase' = NextPhase(variant, idx, didx + 1, currentNodes, occ)
  /\ UNCHANGED <<variant, feed, runNo, step, idx, currentNodes, occ, curId, count,
                 fatal, storeAtStart, prevClean, prevAborted>>

\* mutant: an occurrence left because of an error is counted
SkipMut ==
  /\ idx' = AfterFailure(idx)
  /\ step' = "upsert"
  /\ phase' = NextPhase(variant, AfterFailure(idx), didx, currentNodes, occ)
  /\ count' = count + 1
  /\ UNCHANGED curId


\* ---- run(): upsertMetaobject, setActive, inside try/catch ---------------
\* the item is given up: console.error, sleep(1000), next ev
Skip ==
  /\ idx' = AfterFailure(idx)
  /\ step' = "upsert"
  /\ phase' = NextPhase(variant, AfterFailure(idx), didx, currentNodes, occ)
  /\ UNCHANGED <<count, curId>>

Upsert ==
  /\ phase = "apply"
  /\ variant = "run"
  /\ step = "upsert"
  /\ idx <= Len(occ)
  /\ \E o \in MutOutcomes :
       LET h == occ[idx]
           r == IF o # "ok" THEN Rejected(store, nextId, o)
                ELSE StoreUpsert(store, nextId, h)
       IN  /\ failures' = Spent(o)
           /\ store' = r.store
           /\ nextId' = r.nextId
           /\ issued' = Append(issued, Entry("upsert", h, idx, r))
           /\ runFailed' = (runFailed \/ r.outcome # "ok")
           /\ curId' = r.id
           /\ step' = IF r.outcome = "ok" THEN "setActive" ELSE "lookup"
  /\ UNCHANGED <<variant, feed, runNo, phase, idx, didx, currentNodes, occ, count,
                 fatal, storeAtStart, prevClean, prevAborted>>

\* catch (e) of upsertMetaobject: GET_BY_HANDLE
Lookup ==
  /\ phase = "apply"
  /\ variant = "run"
  /\ step = "lookup"
  /\ \E o \in QueryOutcomes :
       LET h == occ[idx]
           existing == IF h \in HandlesOf(store)
                       THEN (CHOOSE r \in store : r.handle = h).id ELSE 0
       IN  /\ failures' = Spent(o)
           /\ runFailed' = (runFailed \/ o # "ok")
           /\ IF o = "ok"
              THEN /\ curId' = existing
                   /\ step' = IF existing # 0 THEN "update" ELSE "create"
                   /\ UNCHANGED <<phase, idx, count>>
              ELSE Skip
  /\ UNCHANGED <<variant, feed, store, nextId, runNo, didx, currentNodes, occ,
                 fatal, issued, storeAtStart, prevClean, prevAborted>>

\* the fallback write of upsertMetaobject: CREATE when the lookup found nothing,
\* UPDATE of the record it found
Fallback ==
  /\ phase = "apply"
  /\ variant = "run"
  /\ step \in {"create", "update"}
  /\ \E o \in MutOutcomes :
       LET h == occ[idx]
           r == IF o # "ok" THEN Rejected(store, nextId, o)
                ELSE IF step = "create" THEN StoreCreate(store, nextId, h, FALSE)
                ELSE StoreUpdate(store, nextId, curId, FALSE)
       IN  /\ failures' = Spent(o)
           /\ store' = r.store
           /\ nextId' = r.nextId
           /\ issued' = Append(issued, Entry(step, h, idx, r))
           /\ runFailed' = (runFailed \/ r.outcome # "ok")
           /\ IF r.outcome = "ok"
              THEN /\ curId' = r.id
                   /\ step' = "setActive"
                   /\ UNCHANGED <<phase, idx, count>>
              ELSE Skip
  /\ UNCHANGED <<variant, feed, runNo, didx, currentNodes, occ,
                 fatal, storeAtStart, prevClean, prevAborted>>

SetActive ==
  /\ phase = "apply"
  /\ variant = "run"
  /\ step = "setActive"
  /\ \E o \in MutOutcomes :
       LET h == occ[idx]
           r == IF o # "ok" THEN Rejected(store, nextId, o)
                ELSE StoreSetActive(store, nextId, curId)
       IN  /\ failures' = Spent(o)
           /\ store' = r.store
           /\ nextId' = r.nextId
           /\ issued' = Append(issued, Entry("setActive", h, idx, r))
           /\ runFailed' = (runFailed \/ r.outcome # "ok")
           /\ IF r.outcome = "ok"
              THEN /\ count' = count + 1
                   /\ idx' = idx + 1
                   /\ step' = "upsert"
                   /\ phase' = NextPhase(variant, idx + 1, didx, currentNodes, occ)
                   /\ UNCHANGED curId
              ELSE Skip
  /\ UNCHANGED <<variant, feed, runNo, didx, currentNodes, occ,
                 fatal, storeAtStart, prevClean, prevAborted>>

\* ---- the process dies in the middle of a run ----------------------------
Crash ==
  /\ phase \in {"config", "list", "fetch", "apply", "delete"}
  /\ CanFail
  /\ phase' = "crashed"
  /\ failures' = failures + 1
  /\ runFailed' = TRUE
  /\ UNCHANGED <<variant, feed, store, nextId, runNo, step, idx, didx, currentNodes,
                 occ, curId, count, fatal, issued, storeAtStart, prevClean, prevAborted>>

Next ==
  \/ StartRun /\ UNCHANGED <<srv, xp, hk, cfg, ls>>
  \/ ResolveConfig /\ UNCHANGED <<srv, xp, hk, cfg, ls>>
  \/ ListExisting /\ UNCHANGED <<srv, xp, hk, cfg, ls>>
  \/ FetchFeed /\ UNCHANGED <<srv, xp, hk, cfg, ls>>
  \/ ApplyItem /\ UNCHANGED <<srv, xp, hk, cfg, ls>>
  \/ DeleteItem /\ UNCHANGED <<srv, xp, hk, cfg, ls>>
  \/ Upsert /\ UNCHANGED <<srv, xp, hk, cfg, ls>>
  \/ Lookup /\ UNCHANGED <<srv, xp, hk, cfg, ls>>
  \/ Fallback /\ UNCHANGED <<srv, xp, hk, cfg, ls>>
  \/ SetActive /\ UNCHANGED <<srv, xp, hk, cfg, ls>>
  \/ Crash /\ UNCHANGED <<srv, xp, hk, cfg, ls>>

Spec == Init /\ [][Next]_vars


\* ---- vocabulary of the properties ---------------------------------------
Existing == {currentNodes[k].handle : k \in 1..Len(currentNodes)}
Desired == NewHandles(occ)
IssuedAt(kinds) == {k \in 1..Len(issued) : issued[k].kind \in kinds}
IssuedHandles(kind) == {issued[k].h : k \in IssuedAt({kind})}
ItemWrites(i, kinds) == Cardinality({k \in IssuedAt(kinds) : issued[k].item = i})
\* the executor has left occurrence i behind
MovedOn(i) == phase \in {"delete", "done"} \/ (phase = "apply" /\ i < idx)
Rank(kind) == CASE kind = "create" -> 1 [] kind = "update" -> 2 [] kind = "delete" -> 3

\* C1: after a run in which every remote call succeeded, the handles of the
\* records in the store are exactly the handles of the desired occurrences.
C1_StoreMirrorsDesired ==
  (phase = "done" /\ ~runFailed) => HandlesOf(store) = Desired

\* C2: the mutations of a runSync run are partitioned by handle: creates for
\* desired \ existing, updates for desired \cap existing, deletes for
\* existing \ desired -- never outside these sets, and exactly these sets once the
\* run has completed; the three sets are pairwise disjoint.
C2_PlanPartition ==
  IsRunSync(variant) =>
    /\ IssuedHandles("create") \subseteq Desired \ Existing
    /\ IssuedHandles("update") \subseteq Desired \cap Existing
    /\ IssuedHandles("delete") \subseteq Existing \ Desired
    /\ IssuedHandles("create") \cap IssuedHandles("update") = {}
    /\ IssuedHandles("create") \cap IssuedHandles("delete") = {}
    /\ IssuedHandles("update") \cap IssuedHandles("delete") = {}
    /\ phase = "done" =>
         /\ IssuedHandles("create") = Desired \ Existing
         /\ IssuedHandles("update") = Desired \cap Existing
         /\ IssuedHandles("delete") = Existing \ Desired

\* a completed runSync run that created, updated and deleted
C2_Witness ==
  /\ IsRunSync(variant)
  /\ phase = "done"
  /\ IssuedHandles("create") # {}
  /\ IssuedHandles("update") # {}
  /\ IssuedHandles("delete") # {}

\* C3: a run that follows a completed, failure-free run on the same feed, and
\* has no failure itself, issues no create and no delete and leaves the store
\* exactly as the previous run left it.
C3_Idempotent ==
  (runNo >= 2 /\ prevClean /\ ~runFailed) =>
    /\ IssuedAt({"create", "delete"}) = {}
    /\ store = storeAtStart

\* a second failure-free run has completed on a store the first run wrote to
C3_Witness ==
  /\ runNo >= 2
  /\ prevClean
  /\ ~runFailed
  /\ phase = "done"
  /\ issued # <<>>
  /\ \E r \in store : r.id >= 3

\* C4: the run after an aborted run, when it completes without failure, leaves
\* the store with exactly the desired handles.
C4_CrashRecovery ==
  (runNo >= 2 /\ prevAborted /\ phase = "done" /\ ~runFailed) =>
    HandlesOf(store) = Desired

\* C5: a create, update or delete that fails never makes the run throw: the run
\* fails only for a fatal reason, and a completed run has attempted every item.
C5_PerItemIsolation ==
  /\ phase = "failed" => fatal
  /\ phase = "done" => \A i \in 1..Len(occ) : \E k \in 1..Len(issued) : issued[k].item = i

\* C6: a create rejected because the handle is taken does not fail the run, and
\* once the executor has moved on, the existing record was updated for that item.
C6_DuplicateFallback ==
  \A k \in 1..Len(issued) :
    (issued[k].kind = "create" /\ issued[k].code = "TAKEN") =>
      /\ phase # "failed"
      /\ MovedOn(issued[k].item) =>
           \E j \in k + 1..Len(issued) :
             /\ issued[j].kind = "update"
             /\ issued[j].item = issued[k].item
             /\ issued[j].ok

\* C7: once the executor has moved on from an item whose field write succeeded,
\* the record of that handle is ACTIVE.
C7_PublishedAfterWrite ==
  \A k \in IssuedAt({"create", "update", "upsert"}) :
    (issued[k].ok /\ MovedOn(issued[k].item)) =>
      \A r \in store : r.handle = issued[k].h => r.status = "ACTIVE"

\* C8 (as stated): within a run every create precedes every update and every
\* update precedes every delete.
C8_CreatesUpdatesDeletes ==
  IsRunSync(variant) =>
    \A i \in 1..Len(issued) : \A j \in i + 1..Len(issued) :
      Rank(issued[i].kind) <= Rank(issued[j].kind)

\* C8 (amended): within a run no create and no update is issued after a delete;
\* creates and updates are issued in the order of the desired list.
C8_DeletesLast ==
  /\ \A i \in 1..Len(issued) : \A j \in i + 1..Len(issued) :
       issued[i].kind = "delete" => issued[j].kind = "delete"
  /\ \A i \in 1..Len(issued) : \A j \in i + 1..Len(issued) :
       (issued[i].item # 0 /\ issued[j].item # 0) => issued[i].item <= issued[j].item

\* an update, then a create, then a delete in one run
C8_Witness ==
  \E i \in 1..Len(issued) : \E j \in i + 1..Len(issued) : \E k \in j + 1..Len(issued) :
    /\ issued[i].kind = "update"
    /\ issued[j].kind = "create"
    /\ issued[k].kind = "delete"

\* C9 (as stated): at most one field write (upsert, create or update) is issued
\* for an item in a run.
C9_OneWritePerItem ==
  \A i \in 1..Len(occ) : ItemWrites(i, {"upsert", "create", "update"}) <= 1

\* C9 (amended): each item is attempted once per run. runSync issues at most one
\* create or update for it; run() issues at most one upsert, at most one fallback
\* create or update and only after the upsert of that item failed, and at most
\* one setActive; no mutation is issued for an item the executor has left.
C9_OneAttemptPerItem ==
  /\ \A i \in 1..Len(occ) :
       /\ ItemWrites(i, {"upsert"}) <= 1
       /\ ItemWrites(i, {"create", "update"}) <= 1
       /\ ItemWrites(i, {"setActive"}) <= 1
       /\ IsRunSync(variant) => ItemWrites(i, {"upsert", "setActive"}) = 0
       /\ variant = "run" =>
            \A k \in IssuedAt({"create", "update"}) :
              issued[k].item = i =>
                \E j \in 1..k - 1 :
                  issued[j].kind = "upsert" /\ issued[j].item = i /\ ~issued[j].ok
  /\ \A i \in 1..Len(issued) : \A j \in i + 1..Len(issued) :
       (issued[i].item # 0 /\ issued[j].item # 0) => issued[i].item <= issued[j].item

\* run() has left an item whose upsert failed and whose fallback write was issued
C9_Witness ==
  /\ variant = "run"
  /\ \E j \in IssuedAt({"upsert"}) : \E k \in IssuedAt({"create", "update"}) :
       /\ j < k
       /\ issued[j].item = issued[k].item
       /\ ~issued[j].ok
       /\ MovedOn(issued[j].item)

\* C10: when no feed location is resolvable, or the list of the existing records
\* fails, or the feed cannot be fetched or parsed, the run throws, has issued no
\* mutation, and the store is as it was when the run started.
C10_FatalBeforeMutation ==
  fatal =>
    /\ phase = "failed"
    /\ issued = <<>>
    /\ store = storeAtStart

\* the feed could not be fetched after a non-empty store was listed
C10_Witness ==
  /\ fatal
  /\ phase = "failed"
  /\ currentNodes # <<>>


\* ==== the invoking layer ==================================================
\* "server"  : app.get('/sync') of src/src/server.mjs:18-27 (awaits runSync)
\* "server1" : app.get('/sync') of src/unnamed/part_001:32-45 (the same, quiet mode)
\* "bg"      : app.get('/sync') of src/unnamed/part_001:80-100 (answers at once,
\*             runs in the background behind the `running` flag)
\* "cron"    : src/unnamed/part_001:1-9 (a run at start-up, one per cron tick)
MaxTriggers == 3

Servers == {"server", "server1", "bg", "cron"}
Hmacs == {"none", "bad", "good"}

\* the core variables while another part of the system is exercised
CoreIdle ==
  /\ variant = "core"
  /\ feed = <<>>
  /\ store = {}
  /\ nextId = 3
  /\ runNo = 0
  /\ phase = "idle"
  /\ step = "upsert"
  /\ idx = 1
  /\ didx = 1
  /\ currentNodes = <<>>
  /\ occ = <<>>
  /\ curId = 0
  /\ count = 0
  /\ failures = 0
  /\ runFailed = FALSE
  /\ fatal = FALSE
  /\ issued = <<>>
  /\ storeAtStart = {}
  /\ prevClean = FALSE
  /\ prevAborted = FALSE

\* verifyHmac(req): is the request allowed to go on
VerifyHmac(kind, secret, hmac) ==
  IF kind = "server"
  THEN secret /\ hmac = "good"
  ELSE ~secret \/ hmac = "good"

\* the status a finished awaited run is answered with
Answer(kind, quiet, outcome) ==
  IF outcome = "threw" THEN 500
  ELSE IF kind = "server1" /\ quiet THEN 204
  ELSE 200

InProgress == Cardinality({k \in 1..Len(srv.runs) : srv.runs[k].state = "running"})

InitServer ==
  /\ CoreIdle
  /\ xp = Off
  /\ hk = Off
  /\ cfg = Off
  /\ ls = Off
  /\ \E kind \in Servers, secret \in BOOLEAN :
       srv = [on |-> TRUE, kind |-> kind, secret |-> secret, running |-> FALSE,
              reqs |-> <<>>,
              runs |-> IF kind = "cron" THEN <<[req |-> 0, state |-> "running"]>>
                       ELSE <<>>]

\* an HTTP GET /sync arrives
GetSync ==
  /\ srv.on
  /\ srv.kind # "cron"
  /\ Len(srv.reqs) < MaxTriggers
  /\ \E hmac \in Hmacs, quiet \in BOOLEAN :
       LET n == Len(srv.reqs) + 1
           req(status) == [hmac |-> hmac, quiet |-> quiet, status |-> status]
           run == [req |-> n, state |-> "running"]
       IN  IF ~VerifyHmac(srv.kind, srv.secret, hmac)
           THEN srv' = [srv EXCEPT !.reqs = Append(@, req(401))]
           ELSE IF srv.kind = "bg"
           THEN IF srv.running
                THEN srv' = [srv EXCEPT !.reqs = Append(@, req(200))]
                ELSE srv' = [srv EXCEPT !.reqs = Append(@, req(200)),
                                        !.running = TRUE,
                                        !.runs = Append(@, run)]
           ELSE srv' = [srv EXCEPT !.reqs = Append(@, req(0)),
                                   !.runs = Append(@, run)]
  /\ UNCHANGED <<coreVars, xp, hk, cfg, ls>>

\* cron.schedule('0 */3 * * *', () => runSync().catch(console.error))
CronTick ==
  /\ srv.on
  /\ srv.kind = "cron"
  /\ Len(srv.runs) <= MaxTriggers
  /\ srv' = [srv EXCEPT !.runs = Append(@, [req |-> 0, state |-> "running"])]
  /\ UNCHANGED <<coreVars, xp, hk, cfg, ls>>

\* mutant: the flag is released only when the run resolves
RunEndsMut ==
  /\ srv.on
  /\ \E k \in 1..Len(srv.runs), outcome \in {"ok", "threw"} :
       /\ srv.runs[k].state = "running"
       /\ LET r == srv.runs[k].req
          IN  srv' = [srv EXCEPT
                !.runs[k].state = outcome,
                !.running = IF srv.kind = "bg" /\ outcome = "ok" THEN FALSE ELSE @,
                !.reqs = IF srv.kind \in {"server", "server1"}
                         THEN [@ EXCEPT ![r].status = Answer(srv.kind, srv.reqs[r].quiet, outcome)]
                         ELSE @]
  /\ UNCHANGED <<coreVars, xp, hk, cfg, ls>>

\* a runSync in progress resolves or rejects
RunEnds ==
  /\ srv.on
  /\ \E k \in 1..Len(srv.runs), outcome \in {"ok", "threw"} :
       /\ srv.runs[k].state = "running"
       /\ LET r == srv.runs[k].req
          IN  srv' = [srv EXCEPT
                !.runs[k].state = outcome,
                !.running = IF srv.kind = "bg" THEN FALSE ELSE @,
                !.reqs = IF srv.kind \in {"server", "server1"}
                         THEN [@ EXCEPT ![r].status = Answer(srv.kind, srv.reqs[r].quiet, outcome)]
                         ELSE @]
  /\ UNCHANGED <<coreVars, xp, hk, cfg, ls>>

NextServer ==
  \/ GetSync
  \/ CronTick
  \/ RunEnds

SpecServer == InitServer /\ [][NextServer]_vars

\* C11: across GET /sync requests, the start-up run and the cron ticks, at most
\* one runSync is in progress at any time.
C11_NoOverlap == srv.on => InProgress <= 1


\* ==== the occurrence expander ============================================
\* "run"     : run of src/src/sync.mjs:156-182 (cancelled components dropped,
\*             recurrence rules expanded, window filter on the start, sort)
\* "core"    : runSync of src/src/sync-core.mjs:123-128 and part_000:72-77 (window
\*             filter on the start of the component, nothing else)
\* "setDate" : runSync of src/src/sync-core.mjs:239-244 (the window end is
\*             cutoff.setDate(now.getDate() + lookaheadDays), a calendar-day
\*             addition in the local time zone)
\* Instants are integers; a day is DayUnits of them and a daily rule repeats
\* every DayUnits. A daylight-saving change between now and the window end moves
\* the setDate cutoff by one unit either way.
DayUnits == 2
MaxLook == 2

Expanders == {"run", "core", "setDate"}
Now0 == DayUnits
Times == 0..(Now0 + MaxLook * DayUnits + 2)

\* one VEVENT of the parsed feed
Components ==
  {c \in [uid : {"a", "b"}, start : Times, hasEnd : BOOLEAN, end : Times,
          cancelled : BOOLEAN, rrule : BOOLEAN, hasEx : BOOLEAN, ex : Times] :
     /\ ~c.hasEnd => c.end = 0
     /\ ~c.hasEx => c.ex = 0
     /\ c.hasEx => c.rrule}

\* the parsed feeds: any one component, or two plain components with different
\* uids (parseICS keys the components by uid) that start at now or just after
PairComps ==
  {c \in Components : /\ ~c.hasEnd /\ ~c.cancelled /\ ~c.rrule
                      /\ c.start \in {Now0, Now0 + 1}}
ParsedFeeds ==
  {<<c>> : c \in {c \in Components : c.uid = "a"}}
    \cup {<<p[1], p[2]>> : p \in {q \in PairComps \X PairComps : q[1].uid # q[2].uid}}

\* until / futureLimit / cutoff
WindowEnd(v, now, look, shift) ==
  IF v = "setDate" THEN now + look * DayUnits + shift
  ELSE now + look * DayUnits

\* ev.rrule.between(now, until, true): the instants of the rule, both ends included
Between(c, lo, hi) ==
  LET inst == {t \in Times : t >= c.start /\ (t - c.start) % DayUnits = 0
                             /\ lo <= t /\ t <= hi}
      asc[S \in SUBSET Times] ==
        IF S = {} THEN <<>>
        ELSE LET m == CHOOSE x \in S : \A y \in S : x <= y
             IN  <<m>> \o asc[S \ {m}]
  IN  asc[inst]

\* mutant: the exception dates are not consulted
ExcludedMut(c, dt) == FALSE

\* exdates.includes(+dt)
Excluded(c, dt) == c.hasEx /\ c.ex = dt

\* the occurrence pushed for component k: itself, or one instance of its rule
Occ(k, start, hasEnd, end) ==
  [src |-> k, start |-> start, hasEnd |-> hasEnd, end |-> IF hasEnd THEN end ELSE 0]

\* run(): the occurrences one component contributes before the window filter
ExpandRule(k, c, now, until) ==
  LET dts == SelectSeq(Between(c, now, until), LAMBDA dt : ~Excluded(c, dt))
      dur == IF c.hasEnd THEN c.end - c.start ELSE 0
  IN  [i \in 1..Len(dts) |-> Occ(k, dts[i], dur # 0, dts[i] + dur)]

RECURSIVE Flatten(_)
Flatten(ss) == IF ss = <<>> THEN <<>> ELSE Head(ss) \o Flatten(Tail(ss))

\* future.sort((a, b) => a.start - b.start): stable, ascending by start
RECURSIVE SortByStart(_)
SortByStart(os) ==
  IF os = <<>> THEN <<>>
  ELSE LET rest == SortByStart(Tail(os))
           x == Head(os)
       IN  SelectSeq(rest, LAMBDA o : o.start < x.start) \o <<x>>
           \o SelectSeq(rest, LAMBDA o : o.start >= x.start)

InWindow(o, now, until) == o.start >= now /\ o.start <= until

\* the desired occurrences of a run
Expand(v, comps, now, until) ==
  IF v = "run"
  THEN LET each == [k \in 1..Len(comps) |->
                      IF comps[k].cancelled THEN <<>>
                      ELSE IF comps[k].rrule THEN ExpandRule(k, comps[k], now, until)
                      ELSE <<Occ(k, comps[k].start, comps[k].hasEnd, comps[k].end)>>]
       IN  SortByStart(SelectSeq(Flatten(each), LAMBDA o : InWindow(o, now, until)))
  ELSE LET each == [k \in 1..Len(comps) |->
                      <<Occ(k, comps[k].start, comps[k].hasEnd, comps[k].end)>>]
       IN  SelectSeq(Flatten(each), LAMBDA o : InWindow(o, now, until))

InitExpand ==
  /\ CoreIdle
  /\ srv = Off
  /\ hk = Off
  /\ cfg = Off
  /\ ls = Off
  /\ \E v \in Expanders, cs \in ParsedFeeds, look \in 1..MaxLook, shift \in {0 - 1, 0, 1} :
       /\ v # "setDate" => shift = 0
       /\ xp = [on |-> TRUE, v |-> v, comps |-> cs, now |-> Now0, look |-> look,
                shift |-> shift, done |-> FALSE, out |-> <<>>]

\* the feed is expanded into the desired list
ExpandFeed ==
  /\ xp.on
  /\ ~xp.done
  /\ xp' = [xp EXCEPT
        !.done = TRUE,
        !.out = Expand(xp.v, xp.comps, xp.now,
                       WindowEnd(xp.v, xp.now, xp.look, xp.shift))]
  /\ UNCHANGED <<coreVars, srv, hk, cfg, ls>>

NextExpand == ExpandFeed

SpecExpand == InitExpand /\ [][NextExpand]_vars

\* ---- vocabulary of the expander properties ------------------------------
XpOutOf(k) == {i \in 1..Len(xp.out) : xp.out[i].src = k}
XpPlain(c) == ~c.rrule /\ ~c.cancelled
XpWellFormed(c) == c.hasEnd => c.end >= c.start
XpEnd == xp.now + xp.look * DayUnits


\* C12: a non-recurring event that started before now and ends at or after now
\* is among the desired occurrences, and one that ended before now is not.
C12_InProgressRetained ==
  xp.on /\ xp.done =>
    \A k \in 1..Len(xp.comps) :
      LET c == xp.comps[k]
      IN  XpPlain(c) /\ c.hasEnd /\ XpWellFormed(c) =>
            /\ (c.start < xp.now /\ c.end >= xp.now => XpOutOf(k) # {})
            /\ (c.end < xp.now => XpOutOf(k) = {})

\* C13: an occurrence whose start equals the window end (now + lookahead days)
\* is desired, and one that starts one unit later is not.
C13_WindowInclusive ==
  xp.on /\ xp.done =>
    \A k \in 1..Len(xp.comps) :
      LET c == xp.comps[k]
      IN  XpPlain(c) /\ XpWellFormed(c) =>
            /\ (c.start = XpEnd => XpOutOf(k) # {})
            /\ (c.start = XpEnd + 1 => XpOutOf(k) = {})

\* the instants of the daily rule of c that lie in the window, ends included
XpInstants(c) ==
  {t \in Times : t >= c.start /\ (t - c.start) % DayUnits = 0
                 /\ xp.now <= t /\ t <= XpEnd}
XpKept(c) == {t \in XpInstants(c) : ~(c.hasEx /\ c.ex = t)}
XpSeries(c) == c.rrule /\ ~c.cancelled /\ c.start <= xp.now

\* C14 as stated: a daily series with one excluded instant in the window yields
\* N - 1 occurrences over an N-day window.
C14_OneFewerThanDays ==
  xp.on /\ xp.done /\ xp.v = "run" =>
    \A k \in 1..Len(xp.comps) :
      LET c == xp.comps[k]
      IN  XpSeries(c) /\ c.hasEx /\ c.ex \in XpInstants(c) =>
            Cardinality(XpOutOf(k)) = xp.look - 1

\* C14: a recurring component yields exactly one occurrence for every instant
\* of its rule in [now, window end] that is not an exception date, in ascending
\* order, each keeping the duration of the component; with one excluded instant
\* that is N - 1 occurrences over N days, or N when an instant falls on now.
C14_RecurrenceWithExceptions ==
  xp.on /\ xp.done /\ xp.v = "run" =>
    \A k \in 1..Len(xp.comps) :
      LET c == xp.comps[k]
          mine == XpOutOf(k)
      IN  c.rrule /\ ~c.cancelled =>
            /\ {xp.out[i].start : i \in mine} = XpKept(c)
            /\ Cardinality(mine) = Cardinality(XpKept(c))
            /\ \A i, j \in mine : i < j => xp.out[i].start < xp.out[j].start
            /\ \A i \in mine : xp.out[i].hasEnd =>
                 xp.out[i].end - xp.out[i].start = c.end - c.start
            /\ (XpSeries(c) /\ c.hasEx /\ c.ex \in XpInstants(c) =>
                  Cardinality(mine) =
                    IF (xp.now - c.start) % DayUnits = 0 THEN xp.look ELSE xp.look - 1)

\* a series with an exception date inside the window has been expanded and
\* more than one of its instances is desired
C14_Witness ==
  /\ xp.on /\ xp.done /\ xp.v = "run"
  /\ XpSeries(xp.comps[1])
  /\ xp.comps[1].hasEx /\ xp.comps[1].ex \in XpInstants(xp.comps[1])
  /\ Cardinality(XpOutOf(1)) >= 2

\* C15: a component whose end is before its start contributes no desired
\* occurrence.
C15_MalformedRejected ==
  xp.on /\ xp.done =>
    \A k \in 1..Len(xp.comps) :
      ~XpWellFormed(xp.comps[k]) => XpOutOf(k) = {}


\* ==== the handle functions ===============================================
\* "buildHandle" : buildHandle of src/src/sync.mjs:89-96, called by run (line 191)
\* "toHandle"    : toHandle of src/src/sync-core.mjs:23-30, called on the uid or
\*                 the summary (lines 133-134)
\* "rawUid"      : the handle of src/src/sync-core.mjs:245-251 (the uid as it is,
\*                 else the normalised summary)
\* A string is a sequence of one-character strings; start instants are Unix
\* seconds.
MaxCalls == 2
MaxKey == 60

HandleFns == {"buildHandle", "toHandle", "rawUid"}
DigitChars == <<"0", "1", "2", "3", "4", "5", "6", "7", "8", "9">>
Alnum == {"a", "b", "e", "n", "o", "t", "v"} \cup {DigitChars[i] : i \in 1..10}
Alphabet == Alnum \cup {"B", "é", "@", " ", "-"}

Pad(n) == [i \in 1..n |-> "a"]
Affixes == {<<>>, <<"B">>, <<"@", "é">>, <<" ", "-">>}
PadLens == {0, 1, MaxKey - 12, MaxKey - 11, MaxKey - 2, MaxKey}
Uids == {pre \o Pad(n) \o suf : pre \in Affixes, suf \in Affixes, n \in PadLens}
Summaries == {<<>>, <<"B", " ", "b">>}
Starts == {9, 1700000000, 1700000001}
Clocks == {1, 2}

\* String(n) of a non-negative integer
RECURSIVE Digits(_)
Digits(n) ==
  IF n < 10 THEN <<DigitChars[n + 1]>>
  ELSE Digits(n \div 10) \o <<DigitChars[(n % 10) + 1]>>

\* .toLowerCase()
ToLower(str) == [i \in 1..Len(str) |-> IF str[i] = "B" THEN "b" ELSE str[i]]

\* .normalize('NFD').replace(/[\u0300-\u036f]/g, ''): the accent is removed
StripAccents(str) == [i \in 1..Len(str) |-> IF str[i] = "é" THEN "e" ELSE str[i]]

\* .replace(/[bad]+/g, '-'): every maximal run of characters of bad becomes one hyphen
RECURSIVE Squash(_, _, _)
Squash(str, bad, inRun) ==
  IF str = <<>> THEN <<>>
  ELSE IF Head(str) \in bad
       THEN (IF inRun THEN <<>> ELSE <<"-">>) \o Squash(Tail(str), bad, TRUE)
       ELSE <<Head(str)>> \o Squash(Tail(str), bad, FALSE)

\* the characters of drop removed from both ends
RECURSIVE TrimLeft(_, _)
TrimLeft(str, drop) ==
  IF str # <<>> /\ Head(str) \in drop THEN TrimLeft(Tail(str), drop) ELSE str

RECURSIVE TrimRight(_, _)
TrimRight(str, drop) ==
  IF str # <<>> /\ str[Len(str)] \in drop
  THEN TrimRight(SubSeq(str, 1, Len(str) - 1), drop)
  ELSE str

Trim(str, drop) == TrimRight(TrimLeft(str, drop), drop)

\* .slice(0, n)
Slice(str, n) == SubSeq(str, 1, IF Len(str) < n THEN Len(str) ELSE n)

\* clean(s): (s ?? '').toString().trim()
Clean(str) == Trim(str, {" "})

\* the normalised, truncated string of buildHandle
HandleBase(uid, start) ==
  Slice(Squash(Squash(ToLower(Clean(uid) \o <<"-">> \o Digits(start)),
                      Alphabet \ (Alnum \cup {"-"}), FALSE),
               {"-"}, FALSE),
        MaxKey)

\* mutant: an occurrence without identifier is keyed by the wall clock
BuildHandleMut(uid, start, clock) ==
  IF Clean(uid) # <<>> THEN HandleBase(uid, start) ELSE <<"e", "-">> \o Digits(clock)

\* buildHandle(uid, start), read at wall-clock time clock
BuildHandle(uid, start, clock) ==
  IF HandleBase(uid, start) # <<>> THEN HandleBase(uid, start)
  ELSE <<"e", "-">> \o Digits(clock)

\* .toLowerCase().replace(/[^a-z0-9]+/g, '-').replace(/^-+|-+$/g, '').slice(0, 60)
Slug(str) ==
  Slice(Trim(Squash(ToLower(str), Alphabet \ Alnum, FALSE), {"-"}), MaxKey)

\* toHandle(str)
ToHandle(str) ==
  LET given == IF str # <<>> THEN str ELSE <<"e", "v", "e", "n", "t", "o">>
  IN  Slice(Trim(Squash(StripAccents(ToLower(given)), Alphabet \ Alnum, FALSE), {"-"}),
            MaxKey)

\* the handle an occurrence is keyed by
HandleOf(fn, uid, summary, start, clock) ==
  IF fn = "buildHandle" THEN BuildHandle(uid, start, clock)
  ELSE IF fn = "toHandle" THEN ToHandle(IF uid # <<>> THEN uid ELSE summary)
  ELSE IF uid # <<>> THEN uid ELSE Slug(summary)

InitHandle ==
  /\ CoreIdle
  /\ srv = Off
  /\ xp = Off
  /\ cfg = Off
  /\ ls = Off
  /\ \E fn \in HandleFns, uid \in Uids, summary \in Summaries :
       hk = [on |-> TRUE, fn |-> fn, uid |-> uid, summary |-> summary, calls |-> <<>>]

\* the handle of an occurrence of the component is computed
CallHandle ==
  /\ hk.on
  /\ Len(hk.calls) < MaxCalls
  /\ \E start \in Starts, clock \in Clocks :
       hk' = [hk EXCEPT !.calls = Append(@,
                [start |-> start, clock |-> clock,
                 out |-> HandleOf(hk.fn, hk.uid, hk.summary, start, clock)])]
  /\ UNCHANGED <<coreVars, srv, xp, cfg, ls>>

NextHandle == CallHandle

SpecHandle == InitHandle /\ [][NextHandle]_vars

\* the calls whose result is used as a sync key (an empty handle is filtered out)
HkKeys == {i \in 1..Len(hk.calls) : hk.calls[i].out # <<>>}

\* C16: two occurrences of one identifier with different start seconds get
\* different handles from buildHandle, whatever the length of the identifier.
C16_TruncationKeepsSuffix ==
  hk.on /\ hk.fn = "buildHandle" =>
    \A i, j \in 1..Len(hk.calls) :
      hk.calls[i].start # hk.calls[j].start => hk.calls[i].out # hk.calls[j].out

\* C17: every handle used as a sync key has at most MaxKey characters, all of
\* them lowercase alphanumerics or hyphens, and neither starts nor ends with a
\* hyphen.
C17_HandleFormat ==
  hk.on =>
    \A i \in HkKeys :
      LET h == hk.calls[i].out
      IN  /\ Len(h) <= MaxKey
          /\ \A p \in 1..Len(h) : h[p] \in Alnum \cup {"-"}
          /\ h[1] # "-"
          /\ h[Len(h)] # "-"

\* C18: two calls of the handle function with the same identifier and the same
\* start instant return the same string, whatever the wall-clock times of the
\* calls.
C18_HandleStable ==
  hk.on =>
    \A i, j \in 1..Len(hk.calls) :
      hk.calls[i].start = hk.calls[j].start => hk.calls[i].out = hk.calls[j].out

\* buildHandle was called twice for the same start of a component without
\* identifier, at different wall-clock times
C18_Witness ==
  /\ hk.on /\ hk.fn = "buildHandle" /\ Clean(hk.uid) = <<>>
  /\ \E i, j \in 1..Len(hk.calls) :
       /\ hk.calls[i].start = hk.calls[j].start
       /\ hk.calls[i].clock # hk.calls[j].clock


\* ==== the configuration tiers ============================================
\* "core"  : getCalendarConfig of src/src/sync-core.mjs:32-70 (object by id, then
\*           the active object by type, then the environment, then 180)
\* "core5" : getCalendarConfig of src/src/sync.mjs:236-256 (active object by type,
\*           then the environment, then 180)
\* "part0" : runSync of src/unnamed/part_000:29-49 (first object of the type, then
\*           '180')
\* A field value is text: "" or <<>> is a missing value, which || skips.
ConfigVariants == {"core", "core5", "part0"}
DefaultLookahead == <<"1", "8", "0">>

\* what a configuration query answers: an object, no object, or a failure
Lookups(url, days) ==
  {l \in [res : {"ok", "none", "fail"}, ics : {"", url}, look : {<<>>, days}] :
     l.res # "ok" => l.ics = "" /\ l.look = <<>>}

\* a || b on url text
IcsOr(a, b) == IF a # "" THEN a ELSE b

\* a || b on number text
TextOr(a, b) == IF a # <<>> THEN a ELSE b

\* Number(text) / parseInt(text, 10) of a string of digits
RECURSIVE ToNumber(_)
ToNumber(text) ==
  IF text = <<>> THEN 0
  ELSE ToNumber(SubSeq(text, 1, Len(text) - 1)) * 10
       + (CHOOSE d \in 0..9 : DigitChars[d + 1] = text[Len(text)])

\* the configuration one run resolves
GetCalendarConfig(v, idSet, byId, byType, envIcs, envLook) ==
  IF v = "core"
  THEN LET icsFromId == IF idSet /\ byId.res = "ok" THEN byId.ics ELSE ""
           lookaheadFromId == IF idSet /\ byId.res = "ok" THEN byId.look ELSE <<>>
           asked == icsFromId = ""
           icsFromType == IF asked /\ byType.res = "ok" THEN byType.ics ELSE ""
           lookaheadFromType == IF asked /\ byType.res = "ok" THEN byType.look ELSE <<>>
       IN  [threw |-> FALSE,
            ics |-> IcsOr(icsFromId, IcsOr(icsFromType, envIcs)),
            lookahead |-> ToNumber(TextOr(lookaheadFromId, TextOr(lookaheadFromType,
                                     TextOr(envLook, DefaultLookahead))))]
  ELSE IF v = "core5"
  THEN IF byType.res = "fail"
       THEN [threw |-> FALSE, ics |-> envIcs,
             lookahead |-> ToNumber(TextOr(envLook, DefaultLookahead))]
       ELSE [threw |-> FALSE, ics |-> IcsOr(byType.ics, envIcs),
             lookahead |-> ToNumber(TextOr(byType.look, TextOr(envLook, DefaultLookahead)))]
  ELSE IF byType.res # "ok"
       THEN [threw |-> TRUE, ics |-> "", lookahead |-> 0]
       ELSE [threw |-> FALSE, ics |-> byType.ics,
             lookahead |-> ToNumber(TextOr(byType.look, DefaultLookahead))]

InitConfig ==
  /\ CoreIdle
  /\ srv = Off
  /\ xp = Off
  /\ hk = Off
  /\ ls = Off
  /\ \E v \in ConfigVariants, idSet \in BOOLEAN,
        byId \in Lookups("id-url", <<"1", "4">>), byType \in Lookups("type-url", <<"7">>),
        envIcs \in {"", "env-url"}, envLook \in {<<>>, <<"3", "0">>} :
       /\ v # "core" => ~idSet
       /\ ~idSet => byId.res = "none"
       /\ cfg = [on |-> TRUE, v |-> v, idSet |-> idSet, byId |-> byId, byType |-> byType,
                 envIcs |-> envIcs, envLook |-> envLook, done |-> FALSE,
                 got |-> [threw |-> FALSE, ics |-> "", lookahead |-> 0]]

\* a run reads its configuration
ReadConfig ==
  /\ cfg.on
  /\ ~cfg.done
  /\ cfg' = [cfg EXCEPT
        !.done = TRUE,
        !.got = GetCalendarConfig(cfg.v, cfg.idSet, cfg.byId, cfg.byType,
                                  cfg.envIcs, cfg.envLook)]
  /\ UNCHANGED <<coreVars, srv, xp, hk, ls>>

NextConfig == ReadConfig

SpecConfig == InitConfig /\ [][NextConfig]_vars

\* the value the remote tier provides: the object found by id, else, when that
\* one names no feed, the object found by type
CfgById == cfg.idSet /\ cfg.byId.res = "ok"
CfgByType == cfg.byType.res = "ok" /\ ~(CfgById /\ cfg.byId.ics # "")
CfgRemoteIcs ==
  IF CfgById /\ cfg.byId.ics # "" THEN cfg.byId.ics
  ELSE IF CfgByType THEN cfg.byType.ics ELSE ""
CfgRemoteLook ==
  IF CfgById /\ cfg.byId.look # <<>> THEN cfg.byId.look
  ELSE IF CfgByType THEN cfg.byType.look ELSE <<>>

\* C19: the resolved feed URL is the remote value if there is one, else the
\* environment value; the resolved lookahead is the remote value if there is
\* one, else the environment value if there is one, else 180.
C19_ConfigPrecedence ==
  cfg.on /\ cfg.done /\ ~cfg.got.threw =>
    /\ cfg.got.ics = (IF CfgRemoteIcs # "" THEN CfgRemoteIcs ELSE cfg.envIcs)
    /\ cfg.got.lookahead =
         (IF CfgRemoteLook # <<>> THEN ToNumber(CfgRemoteLook)
          ELSE IF cfg.envLook # <<>> THEN ToNumber(cfg.envLook)
          ELSE 180)


\* ==== the reported count =================================================
\* occurrence i was written (by the upsert or by its fallback) and published
Applied(i) ==
  /\ \E k \in IssuedAt({"upsert", "create", "update"}) : issued[k].item = i /\ issued[k].ok
  /\ \E k \in IssuedAt({"setActive"}) : issued[k].item = i /\ issued[k].ok

\* an error made the executor leave occurrence i
Skipped(i) == MovedOn(i) /\ \E k \in 1..Len(issued) : issued[k].item = i /\ ~issued[k].ok

\* C20: the count run() reports is the number of occurrences that were written
\* and published in this run; an occurrence skipped because of an error is not
\* counted.
C20_CountIsApplied ==
  variant = "run" =>
    /\ count = Cardinality({i \in 1..Len(occ) : Applied(i)})
    /\ \A i \in 1..Len(occ) : Skipped(i) /\ ~Applied(i) =>
         count <= Cardinality({j \in 1..Len(occ) : j # i /\ MovedOn(j)})

\* run() has finished, having applied one occurrence and skipped another
C20_Witness ==
  /\ variant = "run"
  /\ phase = "done"
  /\ count >= 1
  /\ \E i \in 1..Len(occ) : Skipped(i) /\ ~Applied(i)


\* ==== the invoking layer: what a trigger is answered =====================
\* C21: the request that started a run which threw is answered with a 5xx
\* status, and a request that started a run is answered 2xx only when that run
\* completed without throwing.
C21_ErrorVisible ==
  srv.on =>
    \A k \in 1..Len(srv.runs) :
      LET r == srv.runs[k].req
      IN  r # 0 =>
            /\ (srv.runs[k].state = "threw" => srv.reqs[r].status \in 500..599)
            /\ (srv.reqs[r].status \in 200..299 => srv.runs[k].state = "ok")


\* C29: with a secret configured, a request whose hmac is missing or wrong is
\* answered 401 and starts no run; with no secret configured, no request starts
\* a run.
C29_HmacRequired ==
  srv.on =>
    \A r \in 1..Len(srv.reqs) :
      LET started == \E k \in 1..Len(srv.runs) : srv.runs[k].req = r
      IN  /\ (srv.secret /\ srv.reqs[r].hmac # "good" =>
                srv.reqs[r].status = 401 /\ ~started)
          /\ (~srv.secret => ~started)

\* every run in progress ends: runSync resolves or rejects, and the promise
\* chain of the handler then runs its finally
SpecServerFair == SpecServer /\ WF_vars(RunEnds)

\* C28: the running flag of the background handler is set exactly while a run
\* it started is in progress, and it always becomes false again, whether the
\* run completes or throws.
C28_FlagReleased ==
  /\ [](srv.on /\ srv.kind = "bg" => (srv.running <=> InProgress = 1))
  /\ ((srv.on /\ srv.running) ~> (srv.on /\ ~srv.running))

\* a run of the background handler threw and a later request started a new run
C28_Witness ==
  /\ srv.on /\ srv.kind = "bg"
  /\ \E k \in 1..Len(srv.runs) : \E j \in k + 1..Len(srv.runs) :
       srv.runs[k].state = "threw"


\* ==== the per-item state machine =========================================
\* the successful mutations issued for occurrence i
OkWrites(i) == {k \in 1..Len(issued) : issued[k].item = i /\ issued[k].ok}

\* C22: every occurrence run() has left behind is Applied or Skipped, never
\* both, and a Skipped occurrence has changed nothing in the store: none of the
\* mutations issued for it succeeded.
C22_NoPartialApply ==
  variant = "run" =>
    \A i \in 1..Len(occ) :
      MovedOn(i) =>
        /\ Applied(i) \/ Skipped(i)
        /\ (Skipped(i) /\ ~Applied(i) => OkWrites(i) = {})


\* ==== the list call on a store of any size ===============================
\* runSync of src/src/sync-core.mjs:112-116 and of src/unnamed/part_000:54-66 ask
\* for metaobjects(first: 250) once and follow no cursor. The records of the
\* store are numbered in the order the store lists them; record i has id i and
\* handle i.
ListVariants == {"core", "part0"}
StoreSizes == {0, 1, 2, ListFirst - 1, ListFirst, ListFirst + 1, ListFirst + 2}

AllNodes(n) == [i \in 1..n |-> [id |-> i, handle |-> i]]

\* the edges of one answer: the first ListFirst records
FirstPage(all) == SubSeq(all, 1, IF Len(all) < ListFirst THEN Len(all) ELSE ListFirst)

\* desired lists that name the first record, the last record, a new handle
Wanted(n) ==
  {o \in {<<>>, <<1>>, <<n>>, <<n + 1>>, <<1, n + 1>>, <<n, n + 1>>} :
     \A k \in 1..Len(o) : o[k] >= 1}

InitList ==
  /\ CoreIdle
  /\ srv = Off
  /\ xp = Off
  /\ hk = Off
  /\ cfg = Off
  /\ \E v \in ListVariants, n \in StoreSizes : \E o \in Wanted(n) :
       ls = [on |-> TRUE, v |-> v, n |-> n, wanted |-> o, stage |-> "start",
             nodes |-> <<>>, toCreate |-> {}, toDelete |-> <<>>]

\* the list call of the run
ListRecords ==
  /\ ls.on
  /\ ls.stage = "start"
  /\ ls' = [ls EXCEPT !.stage = "listed", !.nodes = FirstPage(AllNodes(ls.n))]
  /\ UNCHANGED <<coreVars, srv, xp, hk, cfg>>

\* the plan of the run: what it will create and what it will delete
PlanRecords ==
  /\ ls.on
  /\ ls.stage = "listed"
  /\ ls' = [ls EXCEPT
        !.stage = "planned",
        !.toCreate = {h \in NewHandles(ls.wanted) : ExistingId(ls.nodes, h) = 0},
        !.toDelete = ToDelete(ls.nodes, ls.wanted)]
  /\ UNCHANGED <<coreVars, srv, xp, hk, cfg>>

NextList ==
  \/ ListRecords
  \/ PlanRecords

SpecList == InitList /\ [][NextList]_vars

\* C23: every record of the store is in the snapshot of the list call, so the
\* plan deletes every stored handle that is not desired and creates no handle
\* that is stored.
C23_FullSnapshot ==
  ls.on =>
    /\ ls.stage # "start" =>
         {ls.nodes[k].handle : k \in 1..Len(ls.nodes)} = 1..ls.n
    /\ ls.stage = "planned" =>
         /\ {ls.toDelete[k].handle : k \in 1..Len(ls.toDelete)}
              = (1..ls.n) \ NewHandles(ls.wanted)
         /\ ls.toCreate \cap (1..ls.n) = {}


\* ==== cancelled components and empty identifiers =========================
\* C24: a component marked cancelled contributes no desired occurrence.
C24_CancelledDiscarded ==
  xp.on /\ xp.done =>
    \A k \in 1..Len(xp.comps) : xp.comps[k].cancelled => XpOutOf(k) = {}

\* the text the handle of the component is derived from: the uid, or, for
\* toHandle, the summary when there is no uid
HkIdentifier == IF hk.fn = "toHandle" /\ hk.uid = <<>> THEN hk.summary ELSE hk.uid

\* the identifier holds no letter and no digit
HkEmptyBase ==
  Trim(Squash(StripAccents(ToLower(HkIdentifier)), Alphabet \ Alnum, FALSE), {"-"}) = <<>>

\* C25: when the identifier normalizes to the empty string, the occurrence still
\* gets a handle (it is not dropped), the handle begins with a literal base and
\* not with the separator, and it does not depend on the wall clock.
C25_EmptyBaseLiteral ==
  hk.on /\ hk.fn \in {"buildHandle", "toHandle"} /\ HkEmptyBase =>
    \A i \in 1..Len(hk.calls) :
      /\ hk.calls[i].out # <<>>
      /\ Head(hk.calls[i].out) \in Alnum
      /\ \A j \in 1..Len(hk.calls) :
           hk.calls[i].start = hk.calls[j].start => hk.calls[i].out = hk.calls[j].out


\* ==== the order of the desired list ======================================
\* handles of occurrences with equal starts are ordered as their uids are
UidRank(u) == IF u = "a" THEN 1 ELSE 2
XpUid(i) == xp.comps[xp.out[i].src].uid

\* C26: the desired list is in ascending order of start, and occurrences with
\* equal starts are in the order of their handles, whatever the order of the
\* components in the feed.
C26_SortedByStartThenHandle ==
  xp.on /\ xp.done =>
    \A i, j \in 1..Len(xp.out) :
      i < j =>
        \/ xp.out[i].start < xp.out[j].start
        \/ /\ xp.out[i].start = xp.out[j].start
           /\ UidRank(XpUid(i)) <= UidRank(XpUid(j))


\* ==== one plan item per handle ===========================================
\* C27: the desired list of a run holds no handle twice, and the run issues
\* neither two creates of one handle nor two updates of one handle.
C27_OneItemPerHandle ==
  IsRunSync(variant) =>
    /\ \A i, j \in 1..Len(occ) : i # j => occ[i] # occ[j]
    /\ \A k, l \in IssuedAt({"create"}) : k # l => issued[k].h # issued[l].h
    /\ \A k, l \in IssuedAt({"update"}) : k # l => issued[k].h # issued[l].h

====
